---- MODULE Spec2Model ----
(***************************************************************************)
(* Model of mesonbuild/compilers/mixins/sdcc.py: the SdccCompiler mixin.   *)
(*                                                                         *)
(* Strings are sequences of one-character strings, so that slicing         *)
(* (i[:2]), rsplit, os.path.join and os.path.normpath are computed as the  *)
(* code computes them.  Argument lists are sequences of such strings.      *)
(* os.path is modelled as posixpath.                                       *)
(*                                                                         *)
(* Three groups of state:                                                  *)
(*   - the toolchain, the construction of the backend and one run of       *)
(*     _sanity_check_impl (specification Spec);                            *)
(*   - one caller-owned list handed to                                     *)
(*     compute_parameters_with_absolute_paths (specification SpecPath);    *)
(*   - the three class-level flag tables, as list objects on a heap, and   *)
(*     the references the getters return (specification SpecFlags);        *)
(*     SpecCaller adds a caller that edits the lists it was handed.        *)
(***************************************************************************)
EXTENDS Integers, Sequences, FiniteSets, TLC

VARIABLES
    \* ---- toolchain identity and environment (read, never written) ----
    is_cross,       \* self.is_cross
    exe_wrapper,    \* self.exe_wrapper: None or a wrapper with a command
    exelist,        \* self.exelist
    env_write,      \* whether open(source_name, 'w') succeeds
    env_compile,    \* what Popen_safe(cmdlist) does: raise, or a return code
    env_run,        \* what subprocess.run(cmdlist) does: raise, or a return code
    \* ---- backend construction and sanity check ----
    step,           \* position: "new", "rejected" (__init__ raised), "constructed",
                    \* "prepared", "compiled", "done"
    base_options,   \* self.base_options
    work_dir, sname,
    source_name, binname, binary_name,
    mode,           \* CompileCheckMode
    cargs, conv_largs, extra_flags,
    cmdlist,
    pc, pe,         \* results of the compile and of the run process
    exc,            \* the exception that ended the call, NoExc when none
    launched,       \* log of processes started: <<kind, command, cwd>>
    files,          \* paths written
    \* ---- path rewriter ----
    parameter_list, \* the caller's list object (mutated in place)
    build_dir,
    history,        \* contents of the caller's list: before, and after each call
    path_ret,       \* which list object the last call returned
    \* ---- flag tables ----
    heap,           \* list objects of the three tables: reference -> contents
    ret,            \* what the last getter call returned: a reference or KeyError
    calls           \* log of the getter calls: <<method, argument>>

sanityVars == <<step, base_options, work_dir, sname, source_name, binname,
                binary_name, mode, cargs, conv_largs, extra_flags, cmdlist,
                pc, pe, exc, launched, files>>
envVars    == <<is_cross, exe_wrapper, exelist, env_write, env_compile, env_run>>
pathVars   == <<parameter_list, build_dir, history, path_ret>>
flagVars   == <<heap, ret, calls>>
vars       == <<envVars, sanityVars, pathVars, flagVars>>

(***************************************************************************)
(* Strings                                                                 *)
(***************************************************************************)
Sep    == "/"
Dot    == <<".">>
DotDot == <<".", ".">>

StartsWith(s, p) == Len(s) >= Len(p) /\ SubSeq(s, 1, Len(p)) = p
EndsWith(s, p)   == Len(s) >= Len(p) /\ SubSeq(s, Len(s) - Len(p) + 1, Len(s)) = p

\* Python slices s[:n] and s[n:]
Take(s, n) == SubSeq(s, 1, IF Len(s) < n THEN Len(s) ELSE n)
Drop(s, n) == SubSeq(s, n + 1, Len(s))

\* Position of the last occurrence of ch in s, 0 when there is none.
LastIndexOf(s, ch) ==
    LET hits == {i \in 1..Len(s) : s[i] = ch}
    IN  IF hits = {} THEN 0 ELSE CHOOSE i \in hits : \A j \in hits : j <= i

\* sname.rsplit('.', 1)[0]
RSplitDotHead(s) ==
    LET k == LastIndexOf(s, ".")
    IN  IF k = 0 THEN s ELSE SubSeq(s, 1, k - 1)

\* os.path.join(a, b) of posixpath
Join_IgnoreAbsolute(a, b) ==
    IF a = <<>> \/ EndsWith(a, <<Sep>>) THEN a \o b ELSE a \o <<Sep>> \o b

Join(a, b) ==
    IF StartsWith(b, <<Sep>>) THEN b
    ELSE IF a = <<>> \/ EndsWith(a, <<Sep>>) THEN a \o b
    ELSE a \o <<Sep>> \o b

\* path.split('/'): the components between separators, empty ones included
RECURSIVE SplitSep(_)
SplitSep(s) ==
    LET seps == {i \in 1..Len(s) : s[i] = Sep}
    IN  IF seps = {} THEN <<s>>
        ELSE LET k == CHOOSE i \in seps : \A j \in seps : i <= j
             IN  <<SubSeq(s, 1, k - 1)>> \o SplitSep(Drop(s, k))

\* '/'.join(comps)
RECURSIVE JoinSep(_)
JoinSep(comps) ==
    IF comps = <<>> THEN <<>>
    ELSE IF Len(comps) = 1 THEN comps[1]
    ELSE comps[1] \o <<Sep>> \o JoinSep(Tail(comps))

\* posixpath.normpath: 1 or 2 leading slashes kept (3 or more collapse to 1)
InitialSlashes(path) ==
    IF ~StartsWith(path, <<Sep>>) THEN 0
    ELSE IF StartsWith(path, <<Sep, Sep>>) /\ ~StartsWith(path, <<Sep, Sep, Sep>>)
         THEN 2 ELSE 1

\* the loop of normpath over the components, new_comps being the accumulator
RECURSIVE NormComps(_, _, _)
NormComps(comps, new_comps, initial_slashes) ==
    IF comps = <<>> THEN new_comps
    ELSE LET comp == Head(comps)
             rest == Tail(comps)
         IN  IF comp = <<>> \/ comp = Dot
                 THEN NormComps(rest, new_comps, initial_slashes)
             ELSE IF \/ comp # DotDot
                     \/ (initial_slashes = 0 /\ new_comps = <<>>)
                     \/ (new_comps # <<>> /\ new_comps[Len(new_comps)] = DotDot)
                 THEN NormComps(rest, Append(new_comps, comp), initial_slashes)
             ELSE IF new_comps # <<>>
                 THEN NormComps(rest, SubSeq(new_comps, 1, Len(new_comps) - 1),
                                initial_slashes)
             ELSE NormComps(rest, new_comps, initial_slashes)

NormPath(path) ==
    IF path = <<>> THEN Dot
    ELSE LET n      == InitialSlashes(path)
             joined == JoinSep(NormComps(SplitSep(path), <<>>, n))
             out    == [i \in 1..n |-> Sep] \o joined
         IN  IF out = <<>> THEN Dot ELSE out

\* all sequences over S of length at most n
RECURSIVE SeqsUpTo(_, _)
SeqsUpTo(S, n) ==
    IF n = 0 THEN {<<>>}
    ELSE LET shorter == SeqsUpTo(S, n - 1)
         IN  shorter \cup {Append(s, x) : s \in shorter, x \in S}

(***************************************************************************)
(* Toolchain, construction and sanity check                                *)
(***************************************************************************)
None == [isNone |-> TRUE, command |-> <<>>]
Wrapper(cmd) == [isNone |-> FALSE, command |-> cmd]

NoExc == [type |-> "", msg |-> ""]
OnlyCross ==
    [type |-> "EnvironmentException", msg |-> "sdcc supports only cross-compilation."]
CannotCompile ==
    [type |-> "EnvironmentException", msg |-> "cannot compile programs."]
CouldNotInvoke ==
    [type |-> "EnvironmentException", msg |-> "Could not invoke sanity test executable"]
NotRunnable ==
    [type |-> "EnvironmentException", msg |-> "are not runnable."]
\* an exception of open() or of Popen_safe, which the code does not catch
Propagated == [type |-> "OSError", msg |-> ""]

NotRun == [ran |-> FALSE, returncode |-> 0]
Exited(rc) == [ran |-> TRUE, returncode |-> rc]

CrossSuffix == <<"_", "c", "r", "o", "s", "s">>
OutSuffix   == <<".", "o", "u", "t">>
DashO       == <<"-", "o">>

\* ---- input sets ----
Sdcc   == <<"s", "d", "c", "c">>
Ccache == <<"c", "c", "a", "c", "h", "e">>
ExeLists == {<<Sdcc>>, <<Ccache, Sdcc>>}
Wrappers == {None, Wrapper(<<<<"q", "e", "m", "u">>>>),
             Wrapper(<<<<"s", "i", "m">>, <<"-", "q">>>>)}
SNames   == {<<"a", ".", "c">>, <<"a", ".", "b", ".", "c">>, <<"a", "b">>, <<".", "c">>}
WorkDirs == {<<>>, <<"w">>, <<"/", "t", "/">>}
\* results of _get_basic_compiler_args and of linker_to_compiler_args
BaseCArgs == {<<>>, <<<<"-", "c">>>>, <<<<"-", "m", "z">>, <<"-", "c">>>>}
ConvLArgs == {<<>>, <<<<"-", "l", "m">>>>}
ReturnCodes    == {0, 1, -11}
ProcessResults == [raised : {FALSE}, rc : ReturnCodes] \cup {[raised |-> TRUE, rc |-> 0]}

\* ---- pieces of _sanity_check_impl ----
SelectMode_AlwaysLink(cross, wrapper) == "LINK"

SelectMode(cross, wrapper) ==
    IF cross /\ wrapper = None THEN "COMPILE" ELSE "LINK"

BinName(sn, cross) ==
    RSplitDotHead(sn) \o (IF cross THEN CrossSuffix ELSE <<>>) \o OutSuffix

get_output_args(outputname) == <<DashO, outputname>>

CompileCommand_FlagsFirst(exe, sn, outargs, extra) ==
    exe \o extra \o <<sn>> \o outargs

CompileCommand(exe, sn, outargs, extra) ==
    exe \o <<sn>> \o outargs \o extra

CompileFailed_Never(rc) == FALSE

CompileFailed(rc) == rc # 0

RunCommand_NoWrapper(cross, wrapper, bin) == <<bin>>

RunCommand(cross, wrapper, bin) ==
    IF cross THEN wrapper.command \o <<bin>> ELSE <<bin>>

RunFailed_Inverted(rc) == rc = 0

RunFailed(rc) == rc # 0

\* ---- SdccCompiler.__init__ ----
Construct_NoCheck ==
    /\ step = "new"
    /\ base_options' = {"b_ndebug"}
    /\ step' = "constructed"
    /\ UNCHANGED <<envVars, pathVars, flagVars, work_dir, sname, source_name,
                   binname, binary_name, mode, cargs, conv_largs, extra_flags,
                   cmdlist, pc, pe, exc, launched, files>>

Construct ==
    /\ step = "new"
    /\ IF ~is_cross
          THEN /\ exc' = OnlyCross
               /\ step' = "rejected"
               /\ UNCHANGED base_options
          ELSE /\ base_options' = {"b_ndebug"}
               /\ step' = "constructed"
               /\ UNCHANGED exc
    /\ UNCHANGED <<envVars, pathVars, flagVars, work_dir, sname, source_name,
                   binname, binary_name, mode, cargs, conv_largs, extra_flags,
                   cmdlist, pc, pe, launched, files>>

\* ---- _sanity_check_impl, up to the probe source being written ----
SanityPrepare ==
    /\ step = "constructed"
    /\ \E wd \in WorkDirs, sn \in SNames, ca \in BaseCArgs, cl \in ConvLArgs :
          /\ work_dir' = wd
          /\ sname' = sn
          /\ source_name' = Join(wd, sn)
          /\ mode' = SelectMode(is_cross, exe_wrapper)
          /\ cargs' = ca
          /\ conv_largs' = cl
          /\ extra_flags' = ca \o cl
          /\ binname' = BinName(sn, is_cross)
          /\ binary_name' = Join(wd, BinName(sn, is_cross))
          /\ IF env_write
                THEN /\ files' = files \cup {Join(wd, sn)}
                     /\ step' = "prepared"
                     /\ UNCHANGED exc
                ELSE /\ exc' = Propagated
                     /\ step' = "done"
                     /\ UNCHANGED files
    /\ UNCHANGED <<envVars, pathVars, flagVars, base_options, cmdlist, pc, pe,
                   launched>>

\* ---- the compiler invocation and the test of its return code ----
SanityCompile ==
    /\ step = "prepared"
    /\ LET cmd == CompileCommand(exelist, sname, get_output_args(binname), extra_flags)
       IN  /\ cmdlist' = cmd
           /\ launched' = Append(launched, <<"compile", cmd, work_dir>>)
           /\ IF env_compile.raised
                 THEN /\ exc' = Propagated
                      /\ step' = "done"
                      /\ UNCHANGED pc
                 ELSE /\ pc' = Exited(env_compile.rc)
                      /\ IF CompileFailed(env_compile.rc)
                            THEN exc' = CannotCompile /\ step' = "done"
                            ELSE exc' = exc /\ step' = "compiled"
    /\ UNCHANGED <<envVars, pathVars, flagVars, base_options, work_dir, sname,
                   source_name, binname, binary_name, mode, cargs, conv_largs,
                   extra_flags, pe, files>>

\* ---- the execution of the probe ----
SanityRun ==
    /\ step = "compiled"
    /\ step' = "done"
    /\ IF is_cross /\ exe_wrapper = None
          THEN UNCHANGED <<cmdlist, launched, pe, exc>>
          ELSE LET cmd == RunCommand(is_cross, exe_wrapper, binary_name)
               IN  /\ cmdlist' = cmd
                   /\ launched' = Append(launched, <<"run", cmd, <<>>>>)
                   /\ IF env_run.raised
                         THEN exc' = CouldNotInvoke /\ UNCHANGED pe
                         ELSE /\ pe' = Exited(env_run.rc)
                              /\ exc' = IF RunFailed(env_run.rc)
                                           THEN NotRunnable ELSE exc
    /\ UNCHANGED <<envVars, pathVars, flagVars, base_options, work_dir, sname,
                   source_name, binname, binary_name, mode, cargs, conv_largs,
                   extra_flags, pc, files>>

SanityIdle ==
    /\ step = "new"
    /\ base_options = {}
    /\ work_dir = <<>> /\ sname = <<>> /\ source_name = <<>>
    /\ binname = <<>> /\ binary_name = <<>>
    /\ mode = "" /\ cargs = <<>> /\ conv_largs = <<>> /\ extra_flags = <<>>
    /\ cmdlist = <<>>
    /\ pc = NotRun /\ pe = NotRun
    /\ exc = NoExc
    /\ launched = <<>>
    /\ files = {}

PathIdle ==
    /\ parameter_list = <<>>
    /\ build_dir = <<>>
    /\ history = <<>>
    /\ path_ret = "none"

(***************************************************************************)
(* Path rewriter                                                           *)
(***************************************************************************)
MaxArgs    == 2
MaxPathLen == 3
MaxApply   == 2

IncludeMarker == <<"-", "I">>
LibraryMarker == <<"-", "L">>

PathChars == {"/", ".", "a"}
Paths     == SeqsUpTo(PathChars, MaxPathLen)
\* every '-I' and '-L' token over the short paths
MarkedTokens == {m \o q : m \in {IncludeMarker, LibraryMarker}, q \in Paths}
\* tokens of the other categories, and tokens shorter than a marker
OtherTokens ==
    { <<>>, <<"-">>, <<"I">>, <<"a">>,
      <<"-", "o">>, <<"-", "o", "a">>,
      <<"-", "D", "I">>, <<"-", "D", "-", "I", "a">>,
      <<"-", "l", ".", "/", "a">>, <<"I", "-", "a">>, <<"a", "-", "L">> }
ListTokens ==
    OtherTokens \cup
    { <<"-", "I">>, <<"-", "I", "a">>, <<"-", "I", ".", ".", "/", "a">>,
      <<"-", "L", "/", "a">>, <<"-", "L", ".">> }
ParameterLists ==
    SeqsUpTo(ListTokens, MaxArgs) \cup {<<t>> : t \in MarkedTokens}
BuildDirs ==
    { <<>>, <<".">>, <<"b">>, <<".", ".">>, <<"/">>, <<"/", "b">>,
      <<"/", "b", "/">>, <<"/", "/", "b">>, <<"/", "b", "/", ".", ".", "/", "c">> }

IsPathToken_OnlyInclude(i) == Take(i, 2) = IncludeMarker

IsPathToken(i) == Take(i, 2) = IncludeMarker \/ Take(i, 2) = LibraryMarker

\* the loop of compute_parameters_with_absolute_paths over the list
Rewritten(list, dir) ==
    [idx \in 1..Len(list) |->
        IF IsPathToken(list[idx])
            THEN Take(list[idx], 2) \o NormPath(Join(dir, Drop(list[idx], 2)))
            ELSE list[idx]]

\* one call on the caller's list object, which it writes and returns
ComputeParametersWithAbsolutePaths ==
    /\ Len(history) <= MaxApply
    /\ parameter_list' = Rewritten(parameter_list, build_dir)
    /\ history' = Append(history, Rewritten(parameter_list, build_dir))
    /\ path_ret' = "parameter_list"
    /\ UNCHANGED <<envVars, sanityVars, flagVars, build_dir>>

(***************************************************************************)
(* Flag tables                                                             *)
(***************************************************************************)
MaxCalls   == 2
MaxListLen == 2

BUILDTYPE_ARGS ==
    [k \in {"plain", "debug", "debugoptimized", "release", "minsize", "custom"}
        |-> <<>>]

OPTIMIZATION_ARGS_Level3Size ==
    [k \in {"plain", "0", "g", "1", "2", "3", "s"} |->
        CASE k \in {"plain", "0", "g"} -> <<>>
          [] k \in {"1", "2"}          -> <<"--opt-code-speed">>
          [] k \in {"3", "s"}          -> <<"--opt-code-size">>]

OPTIMIZATION_ARGS ==
    [k \in {"plain", "0", "g", "1", "2", "3", "s"} |->
        CASE k \in {"plain", "0", "g"} -> <<>>
          [] k \in {"1", "2", "3"}     -> <<"--opt-code-speed">>
          [] k = "s"                   -> <<"--opt-code-size">>]

DEBUG_ARGS ==
    [k \in {"False", "True"} |-> IF k = "True" THEN <<"--debug">> ELSE <<>>]

Table(name) ==
    CASE name = "BUILDTYPE_ARGS"    -> BUILDTYPE_ARGS
      [] name = "OPTIMIZATION_ARGS" -> OPTIMIZATION_ARGS
      [] name = "DEBUG_ARGS"        -> DEBUG_ARGS

\* every entry of a table is a list object of its own
TableRefs ==
    {<<n, k>> : n \in {"BUILDTYPE_ARGS"}, k \in DOMAIN BUILDTYPE_ARGS}
    \cup {<<n, k>> : n \in {"OPTIMIZATION_ARGS"}, k \in DOMAIN OPTIMIZATION_ARGS}
    \cup {<<n, k>> : n \in {"DEBUG_ARGS"}, k \in DOMAIN DEBUG_ARGS}

InitialHeap == [r \in TableRefs |-> Table(r[1])[r[2]]]

NoRet == [kind |-> "none", ref |-> <<"", "">>]

\* self.TABLE[key]: the entry itself, or KeyError
Lookup(name, key) ==
    IF <<name, key>> \in DOMAIN heap
        THEN [kind |-> "ref", ref |-> <<name, key>>]
        ELSE [kind |-> "KeyError", ref |-> <<name, key>>]

BuildtypeInputs    == DOMAIN BUILDTYPE_ARGS \cup {"bogus"}
OptimizationInputs == DOMAIN OPTIMIZATION_ARGS \cup {"4", "fast"}

get_buildtype_args ==
    \E buildtype \in BuildtypeInputs :
        /\ Len(calls) < MaxCalls
        /\ ret' = Lookup("BUILDTYPE_ARGS", buildtype)
        /\ calls' = Append(calls, <<"get_buildtype_args", buildtype>>)
        /\ UNCHANGED <<envVars, sanityVars, pathVars, heap>>

get_optimization_args ==
    \E optimization_level \in OptimizationInputs :
        /\ Len(calls) < MaxCalls
        /\ ret' = Lookup("OPTIMIZATION_ARGS", optimization_level)
        /\ calls' = Append(calls, <<"get_optimization_args", optimization_level>>)
        /\ UNCHANGED <<envVars, sanityVars, pathVars, heap>>

\* the table is keyed by str(is_debug) here
get_debug_args ==
    \E is_debug \in BOOLEAN :
        /\ Len(calls) < MaxCalls
        /\ ret' = Lookup("DEBUG_ARGS", IF is_debug THEN "True" ELSE "False")
        /\ calls' = Append(calls, <<"get_debug_args",
                                    IF is_debug THEN "True" ELSE "False">>)
        /\ UNCHANGED <<envVars, sanityVars, pathVars, heap>>

\* the caller appends a token to the list it was handed
CallerAppend ==
    /\ ret.kind = "ref"
    /\ Len(heap[ret.ref]) < MaxListLen
    /\ heap' = [heap EXCEPT ![ret.ref] = Append(@, "-x")]
    /\ UNCHANGED <<envVars, sanityVars, pathVars, ret, calls>>

FlagsIdle ==
    /\ heap = InitialHeap
    /\ ret = NoRet
    /\ calls = <<>>

EnvIdle ==
    /\ is_cross = TRUE
    /\ exe_wrapper = None
    /\ exelist = <<Sdcc>>
    /\ env_write = TRUE
    /\ env_compile = [raised |-> FALSE, rc |-> 0]
    /\ env_run = [raised |-> FALSE, rc |-> 0]

(***************************************************************************)
(* Specifications                                                          *)
(***************************************************************************)
\* a toolchain, the construction of the backend for it, one sanity check
Init ==
    /\ is_cross \in BOOLEAN
    /\ exe_wrapper \in Wrappers
    /\ exelist \in ExeLists
    /\ env_write \in BOOLEAN
    /\ env_compile \in ProcessResults
    /\ env_run \in ProcessResults
    /\ SanityIdle
    /\ PathIdle
    /\ FlagsIdle

Next == Construct \/ SanityPrepare \/ SanityCompile \/ SanityRun

Spec == Init /\ [][Next]_vars

\* a caller's list and a build directory, rewritten up to MaxApply times
InitPath ==
    /\ EnvIdle
    /\ SanityIdle
    /\ FlagsIdle
    /\ parameter_list \in ParameterLists
    /\ build_dir \in BuildDirs
    /\ history = <<parameter_list>>
    /\ path_ret = "none"

NextPath == ComputeParametersWithAbsolutePaths

SpecPath == InitPath /\ [][NextPath]_vars

\* up to MaxCalls calls of the table-backed getters
InitFlags ==
    /\ EnvIdle
    /\ SanityIdle
    /\ PathIdle
    /\ FlagsIdle

NextFlags == get_buildtype_args \/ get_optimization_args \/ get_debug_args

SpecFlags == InitFlags /\ [][NextFlags]_vars

\* a caller that calls the getters and the path rewriter, and edits the lists
\* it was handed
CallerLists ==
    { <<>>, <<<<"-", "I", "a">>>>, <<<<"-", "o">>, <<"-", "L", ".">>>> }

InitCaller ==
    /\ EnvIdle
    /\ SanityIdle
    /\ FlagsIdle
    /\ parameter_list \in CallerLists
    /\ build_dir \in {<<"b">>, <<"/", "b">>}
    /\ history = <<parameter_list>>
    /\ path_ret = "none"

NextCaller == NextFlags \/ CallerAppend \/ ComputeParametersWithAbsolutePaths

SpecCaller == InitCaller /\ [][NextCaller]_vars

(***************************************************************************)
(* Properties                                                              *)
(***************************************************************************)
CompileLaunched == \E i \in 1..Len(launched) : launched[i][1] = "compile"
Executed        == \E i \in 1..Len(launched) : launched[i][1] = "run"
RunCommands     == {launched[i][2] : i \in {j \in 1..Len(launched) : launched[j][1] = "run"}}

\* the SanityCheckOutcome of a finished call
Outcome ==
    CASE step = "rejected"                      -> "configuration-error"
      [] step # "done"                          -> "unfinished"
      [] exc = CannotCompile                    -> "compile-failed"
      [] exc \in {CouldNotInvoke, NotRunnable}  -> "run-failed"
      [] exc = NoExc /\ Executed                -> "success"
      [] exc = NoExc /\ ~Executed               -> "run-skipped"
      [] OTHER                                  -> "aborted"

\* C1: the probe is executed only after the compiler returned 0; a non-zero
\* return code ends the check with the compile-failed error and no execution,
\* whatever the cross flag and the wrapper are.
C1_RunOnlyAfterCompileSucceeded ==
    /\ Executed => pc = Exited(0)
    /\ \A i \in 1..Len(launched) :
          launched[i][1] = "run" => \E j \in 1..(i - 1) : launched[j][1] = "compile"
    /\ (pc.ran /\ pc.returncode # 0) =>
          /\ step = "done"
          /\ exc = CannotCompile
          /\ Outcome = "compile-failed"
          /\ ~Executed

C1_Witness ==
    /\ step = "done"
    /\ pc.ran /\ pc.returncode # 0
    /\ ~exe_wrapper.isNone
    /\ ~env_run.raised /\ env_run.rc = 0

\* C2: cross-compiling without a wrapper selects compile-only mode, and a
\* compiler return code of 0 then ends the check as run-skipped: a normal
\* return, no error, no process started to execute the probe.
C2_CrossNoWrapperSkipsRun ==
    (is_cross /\ exe_wrapper = None /\ step \in {"prepared", "compiled", "done"}) =>
        /\ mode = "COMPILE"
        /\ ~Executed
        /\ (step = "done" /\ pc = Exited(0)) =>
              /\ exc = NoExc
              /\ Outcome = "run-skipped"
              /\ Len(launched) = 1

C2_Witness ==
    /\ is_cross /\ exe_wrapper = None
    /\ step = "done" /\ pc = Exited(0)

\* C3: cross-compiling with a wrapper, the compile succeeding and the wrapped
\* execution (wrapper command, then the binary path) returning non-zero, the
\* check ends as run-failed with an error other than the compile-failed one.
C3_WrappedRunFailure ==
    (is_cross /\ ~exe_wrapper.isNone /\ pc = Exited(0) /\ pe.ran /\ pe.returncode # 0) =>
        /\ step = "done"
        /\ Outcome = "run-failed"
        /\ exc = NotRunnable
        /\ exc # CannotCompile
        /\ RunCommands = {exe_wrapper.command \o <<binary_name>>}

C3_Witness ==
    /\ is_cross /\ ~exe_wrapper.isNone
    /\ pc = Exited(0) /\ pe.ran /\ pe.returncode # 0
    /\ step = "done"

C5_ConstructionRequiresCross ==
    /\ step # "new" => (step = "rejected" <=> ~is_cross)
    /\ step = "rejected" => (exc = OnlyCross /\ base_options = {})
    /\ step \in {"constructed", "prepared", "compiled", "done"} =>
          (is_cross /\ base_options = {"b_ndebug"})
    /\ launched # <<>> => is_cross

C5_Witness == step = "rejected" /\ ~is_cross /\ exc = OnlyCross

\* C9: the compiler command is the compiler executable tokens, the probe file
\* name, the output-file arguments, then the extra flags (base compile
\* arguments, then the converted link arguments), so no extra flag precedes the
\* output-file arguments; the output name is the probe file name without its
\* last extension, plus '_cross' when cross-compiling, plus '.out'.
C9_CommandOrderAndOutputName ==
    CompileLaunched =>
        LET cmd     == launched[1][2]
            outargs == get_output_args(binname)
            n       == Len(exelist)
            stem    == IF \E i \in 1..Len(sname) : sname[i] = "."
                          THEN CHOOSE b \in {SubSeq(sname, 1, k) : k \in 0..Len(sname)} :
                                  \E e \in {SubSeq(sname, k, Len(sname)) : k \in 1..(Len(sname) + 1)} :
                                      /\ sname = b \o <<".">> \o e
                                      /\ \A i \in 1..Len(e) : e[i] # "."
                          ELSE sname
        IN  /\ launched[1][1] = "compile"
            /\ Len(cmd) = n + 1 + Len(outargs) + Len(cargs) + Len(conv_largs)
            /\ SubSeq(cmd, 1, n) = exelist
            /\ cmd[n + 1] = sname
            /\ SubSeq(cmd, n + 2, n + 1 + Len(outargs)) = outargs
            /\ SubSeq(cmd, n + 2 + Len(outargs), Len(cmd)) = cargs \o conv_largs
            /\ extra_flags = cargs \o conv_largs
            /\ binname = stem \o (IF is_cross THEN CrossSuffix ELSE <<>>) \o OutSuffix

C9_Witness ==
    /\ CompileLaunched
    /\ is_cross
    /\ cargs # <<>> /\ conv_largs # <<>>
    /\ \E i \in 1..Len(sname) : sname[i] = "."

\* C6: the rewriter returns a list of the same length, in which position k
\* holds marker + normalized(build_dir joined with the rest of the token) when
\* the input token begins with '-I' or '-L', and the input token otherwise.
C6_RewriteIsPointwise ==
    \A n \in 2..Len(history) :
        LET in  == history[n - 1]
            out == history[n]
        IN  /\ Len(out) = Len(in)
            /\ \A k \in 1..Len(in) :
                  LET tok    == in[k]
                      marked == /\ Len(tok) >= 2
                                /\ tok[1] = "-"
                                /\ tok[2] \in {"I", "L"}
                  IN  IF marked
                         THEN out[k] = <<tok[1], tok[2]>>
                                         \o NormPath(Join(build_dir, Drop(tok, 2)))
                         ELSE out[k] = tok

C6_Witness ==
    /\ Len(history) >= 2
    /\ Len(history[1]) = 2
    /\ Take(history[1][1], 2) = LibraryMarker
    /\ Take(history[1][2], 2) = <<"-", "o">>
    /\ history[2][1] # history[1][1]

IsAbsoluteNormalized(q) == StartsWith(q, <<Sep>>) /\ NormPath(q) = q

AbsoluteTokensKept ==
    \A n \in 2..Len(history) : \A k \in 1..Len(history[n - 1]) :
        LET tok == history[n - 1][k]
        IN  (IsPathToken(tok) /\ IsAbsoluteNormalized(Drop(tok, 2))) => history[n][k] = tok

\* C7 as stated: for every build directory, rewriting twice gives what
\* rewriting once gives, and a '-I' or '-L' token whose path is absolute and
\* normalized is returned unchanged.
C7_IdempotentForEveryBuildDir ==
    /\ Len(history) >= 3 => history[3] = history[2]
    /\ AbsoluteTokensKept

\* C7 as amended: for every absolute build directory, rewriting twice gives
\* what rewriting once gives; for every build directory a '-I' or '-L' token
\* whose path is absolute and normalized is returned unchanged.
C7_IdempotentForAbsoluteBuildDir ==
    /\ (StartsWith(build_dir, <<Sep>>) /\ Len(history) >= 3) => history[3] = history[2]
    /\ AbsoluteTokensKept

C7_Witness ==
    /\ StartsWith(build_dir, <<Sep>>)
    /\ Len(history) >= 3
    /\ history[2] # history[1]
    /\ \E k \in 1..Len(history[1]) :
          /\ IsPathToken(history[1][k])
          /\ IsAbsoluteNormalized(Drop(history[1][k], 2))

\* the list the last getter call returned, as the caller reads it
RetValue == heap[ret.ref]

\* C8: get_optimization_args returns [] for plain, 0 and g, ['--opt-code-speed']
\* for 1, 2 and 3, ['--opt-code-size'] for s; these seven levels are the keys
\* of the table, and any other level fails with a lookup error.
C8_OptimizationArgs ==
    /\ DOMAIN OPTIMIZATION_ARGS = {"plain", "0", "g", "1", "2", "3", "s"}
    /\ (calls # <<>> /\ calls[Len(calls)][1] = "get_optimization_args") =>
          LET level == calls[Len(calls)][2]
          IN  /\ level \in {"plain", "0", "g"} => (ret.kind = "ref" /\ RetValue = <<>>)
              /\ level \in {"1", "2", "3"} =>
                    (ret.kind = "ref" /\ RetValue = <<"--opt-code-speed">>)
              /\ level = "s" => (ret.kind = "ref" /\ RetValue = <<"--opt-code-size">>)
              /\ level \notin {"plain", "0", "g", "1", "2", "3", "s"} =>
                    ret.kind = "KeyError"

C8_Witness ==
    /\ Len(calls) = 2
    /\ calls[1] = <<"get_optimization_args", "fast">>
    /\ calls[2] = <<"get_optimization_args", "3">>
    /\ ret.kind = "ref"

\* C10: a returned list is never a flag table's own entry nor the caller's
\* input list, so the flag tables keep their initial entries whatever the
\* caller does to the lists it was handed, and a list passed to the path
\* rewriter keeps the tokens it held before the call.
C10_ListsAreFreshAndTablesIntact ==
    /\ ret.kind = "ref" => ret.ref \notin TableRefs
    /\ \A r \in TableRefs : heap[r] = Table(r[1])[r[2]]
    /\ path_ret # "parameter_list"
    /\ parameter_list = history[1]

====
